---------------------------- MODULE Spec2Model ----------------------------
(***************************************************************************)
(* A model of the obs-svg "Drawing Blocks" plugin: the DrawingToolbar      *)
(* (tools, pointer gestures, selection, undo/redo history), the            *)
(* InlineSVGEditor session (load, save, cancel, close), the                *)
(* EditorStateManager registry and the two plugin entry points that open   *)
(* sessions (createNewDrawing, openInlineEditor).                          *)
(*                                                                         *)
(* Conventions.                                                            *)
(*  - A DOM node is a record [tag, g, box]: its tag name, its geometry     *)
(*    attributes as a flat sequence of integers, and box = TRUE when it    *)
(*    carries the attributes of the selection overlay (dashed #4299e1      *)
(*    stroke, pointer-events: none).  Stroke and fill colours never change *)
(*    in the modelled runs and are left out.                               *)
(*  - A reference to a node of the svg element is the node's position in   *)
(*    the child list; Null is the null reference and Detached a reference  *)
(*    to a node that is no longer a child of the svg element.              *)
(*  - Markup text (a history entry, a file's content) is a record [decl,   *)
(*    root, attrs, nodes]: whether the XML declaration is present, the     *)
(*    root element's name, and the root's attributes and child nodes.      *)
(*  - Coordinates are integers; a circle's radius sqrt(dx*dx + dy*dy) is   *)
(*    kept as its square.                                                  *)
(***************************************************************************)
EXTENDS Integers, Sequences, FiniteSets, TLC

VARIABLES
    tb,            \* per session: the DrawingToolbar object and its svgElement
    ed,            \* per session: the InlineSVGEditor object
    file,          \* per session: the content of the vault file at its filePath
    tasks,         \* the awaited vault operations in flight, with their continuations
    activeEditor,  \* EditorStateManager.activeEditor (0 = null)
    host,          \* per session: embed references inserted in the host note
    loaded,        \* the plugin is loaded (onunload has not run)
    ev,            \* the event handled last and what it emitted
    before         \* per session: the primitives when the last gesture began

vars == <<tb, ed, file, tasks, activeEditor, host, loaded, ev, before>>

(***************************************************************************)
(* Bounds and program constants                                            *)
(***************************************************************************)
maxHistorySize == 50

defaultWidth == 800

defaultHeight == 600

\* SpecDraw: a press that adds a node needs fewer child nodes than this.
MaxNodes == 2

\* Spec: the same, for the sessions under the registry.
RegNodes == 2

\* Spec: a mutation is committed only while the history stays within this length.
RegHist == 2

\* SpecDraw: the same.
MaxHist == 3

\* The points a pen path may gather during one drag.
MaxPath == 2

\* Toolbar elements counted in a container (render() adds one each time).
MaxToolbarEls == 2

\* Awaited vault operations in flight.
MaxTasks == 2

Sessions == {1, 2}

Null == 0

Detached == -1

Tools == {"pen", "line", "rectangle", "circle", "select", "eraser"}

Drawable == {"path", "line", "rect", "circle"}

(***************************************************************************)
(* DOM nodes and markup                                                    *)
(***************************************************************************)
Node(tag, g, box) == [tag |-> tag, g |-> g, box |-> box]

CommentNode == Node("comment", <<>>, FALSE)

IsElement(n) == n.tag # "comment"

Attrs(w, h, style) == [width |-> w, height |-> h, viewBox |-> <<0, 0, w, h>>, style |-> style]

NoAttrs == Attrs(0, 0, FALSE)

NoSvg == [attrs |-> NoAttrs, nodes |-> <<>>]

NoMarkup == [decl |-> FALSE, root |-> "none", attrs |-> NoAttrs, nodes |-> <<>>]

RemoveAt(seq, k) == SubSeq(seq, 1, k - 1) \o SubSeq(seq, k + 1, Len(seq))

Min(a, b) == IF a < b THEN a ELSE b

Max(a, b) == IF a > b THEN a ELSE b

Abs(a) == IF a < 0 THEN -a ELSE a

ISqrt(n) == CHOOSE r \in 0..n : r * r <= n /\ (r + 1) * (r + 1) > n

\* XMLSerializer.serializeToString(svgElement): the element's attributes and
\* all its child nodes, comments included, without an XML declaration.
Serialize(svgEl) ==
    [decl |-> FALSE, root |-> "svg", attrs |-> svgEl.attrs, nodes |-> svgEl.nodes]

\* DOMParser.parseFromString(text, 'image/svg+xml') then querySelector('svg').
HasSvgRoot(text) == text.root = "svg"

ParseSvg(text) == [attrs |-> text.attrs, nodes |-> text.nodes]

\* Element.children: the child elements, without comment and text nodes.
Children(svgEl) == SelectSeq(svgEl.nodes, IsElement)

\* The drawable primitives among the nodes of a document, in paint order.
Primitives(nodes) == SelectSeq(nodes, LAMBDA n : n.tag \in Drawable)

\* SVGFileManager.generateEmptySVG
EmptySVG ==
    [decl |-> TRUE, root |-> "svg",
     attrs |-> Attrs(defaultWidth, defaultHeight, FALSE),
     nodes |-> <<CommentNode>>]

(***************************************************************************)
(* DrawingToolbar                                                          *)
(***************************************************************************)
NoToolbar ==
    [made |-> FALSE, svgElement |-> NoSvg, activeTool |-> "pen",
     isDrawing |-> FALSE, currentElement |-> Null, startPoint |-> <<>>,
     pathData |-> <<>>, selectedElement |-> Null, selectionBox |-> Null,
     history |-> <<>>, historyIndex |-> -1,
     toolbarEl |-> FALSE, toolbarEls |-> 0, drawingChangeCallback |-> FALSE]

\* The result of a toolbar method: the toolbar after it, whether it invoked
\* drawingChangeCallback, and whether it called saveToHistory.
Res(t, fire) == [t |-> t, fire |-> fire /\ t.drawingChangeCallback, saved |-> FALSE]

\* A reference after the child at position k left the svg element.
Unlink(p, k) == IF p = k THEN Detached ELSE IF p > k THEN p - 1 ELSE p

\* Element.remove() on the node that reference k denotes.
RemoveNode(t, k) ==
    IF k < 1 THEN t
    ELSE [t EXCEPT !.svgElement.nodes = RemoveAt(@, k),
                   !.currentElement = Unlink(@, k),
                   !.selectedElement = Unlink(@, k),
                   !.selectionBox = Unlink(@, k)]

AppendNode(t, n) == [t EXCEPT !.svgElement.nodes = Append(@, n)]

\* The toolbar as the constructor leaves it: listeners attached, history seeded.
NewToolbar(svgEl) ==
    [NoToolbar EXCEPT !.made = TRUE, !.svgElement = svgEl,
                      !.history = <<Serialize(svgEl)>>, !.historyIndex = 0]

Render(t) ==
    [t EXCEPT !.toolbarEl = TRUE, !.toolbarEls = Min(@ + 1, MaxToolbarEls)]

\* setActiveTool that drops the history entries after the cursor.
SetActiveToolForgetsRedo(t, tool) ==
    Render([t EXCEPT !.activeTool = tool,
                     !.history = SubSeq(@, 1, t.historyIndex + 1)])

SetActiveTool(t, tool) == Render([t EXCEPT !.activeTool = tool])

ClearSelection(t) ==
    LET u == IF t.selectionBox # Null
             THEN [RemoveNode(t, t.selectionBox) EXCEPT !.selectionBox = Null]
             ELSE t
    IN  [u EXCEPT !.selectedElement = Null]

\* saveToHistory that lets the history grow past maxHistorySize.
SaveToHistoryNoEvict(t) ==
    [t EXCEPT !.history = Append(SubSeq(t.history, 1, t.historyIndex + 1),
                                 Serialize(t.svgElement)),
              !.historyIndex = @ + 1]

\* saveToHistory that keeps the entries after the cursor.
SaveToHistoryKeepFuture(t) ==
    LET h == Append(t.history, Serialize(t.svgElement))
    IN  IF Len(h) > maxHistorySize
        THEN [t EXCEPT !.history = Tail(h)]
        ELSE [t EXCEPT !.history = h, !.historyIndex = @ + 1]

\* saveToHistory that advances the cursor also when it drops the oldest entry.
SaveToHistoryEvictAdvance(t) ==
    LET h == Append(SubSeq(t.history, 1, t.historyIndex + 1), Serialize(t.svgElement))
    IN  IF Len(h) > maxHistorySize
        THEN [t EXCEPT !.history = Tail(h), !.historyIndex = @ + 1]
        ELSE [t EXCEPT !.history = h, !.historyIndex = @ + 1]

SaveToHistory(t) ==
    LET svgString == Serialize(t.svgElement)
        h == Append(SubSeq(t.history, 1, t.historyIndex + 1), svgString)
    IN  IF Len(h) > maxHistorySize
        THEN [t EXCEPT !.history = Tail(h)]
        ELSE [t EXCEPT !.history = h, !.historyIndex = @ + 1]

\* The end of every committed mutation: saveToHistory(), then the callback.
Committed(t) == [t |-> SaveToHistory(t), fire |-> t.drawingChangeCallback, saved |-> TRUE]

CanUndo(t) == t.historyIndex > 0

CanRedo(t) == t.historyIndex < Len(t.history) - 1

\* restoreFromHistory without the change callback.
RestoreFromHistoryUnsignalled(t) ==
    IF t.historyIndex < 0 \/ t.historyIndex >= Len(t.history) THEN Res(t, FALSE)
    ELSE LET svgString == t.history[t.historyIndex + 1]
         IN  IF ~HasSvgRoot(svgString) THEN Res(t, FALSE)
             ELSE LET newSvg == ParseSvg(svgString)
                      gone(p) == IF p = Null THEN Null ELSE Detached
                      u == [t EXCEPT !.svgElement.nodes = Children(newSvg),
                                     !.svgElement.attrs = newSvg.attrs,
                                     !.currentElement = gone(@),
                                     !.selectedElement = gone(@),
                                     !.selectionBox = gone(@)]
                  IN  Res(ClearSelection(u), FALSE)

RestoreFromHistory(t) ==
    IF t.historyIndex < 0 \/ t.historyIndex >= Len(t.history) THEN Res(t, FALSE)
    ELSE LET svgString == t.history[t.historyIndex + 1]
         IN  IF ~HasSvgRoot(svgString) THEN Res(t, FALSE)
             ELSE LET newSvg == ParseSvg(svgString)
                      gone(p) == IF p = Null THEN Null ELSE Detached
                      u == [t EXCEPT !.svgElement.nodes = Children(newSvg),
                                     !.svgElement.attrs = newSvg.attrs,
                                     !.currentElement = gone(@),
                                     !.selectedElement = gone(@),
                                     !.selectionBox = gone(@)]
                  IN  Res(ClearSelection(u), TRUE)

\* undo that pops the entry it steps back from.
UndoPopsEntry(t) ==
    IF ~CanUndo(t) THEN Res(t, FALSE)
    ELSE LET r == RestoreFromHistory([t EXCEPT !.historyIndex = @ - 1,
                                               !.history = SubSeq(@, 1, t.historyIndex)])
         IN  [r EXCEPT !.t = Render(@)]

Undo(t) ==
    IF ~CanUndo(t) THEN Res(t, FALSE)
    ELSE LET r == RestoreFromHistory([t EXCEPT !.historyIndex = @ - 1])
         IN  [r EXCEPT !.t = Render(@)]

Redo(t) ==
    IF ~CanRedo(t) THEN Res(t, FALSE)
    ELSE LET r == RestoreFromHistory([t EXCEPT !.historyIndex = @ + 1])
         IN  [r EXCEPT !.t = Render(@)]


\* createToolbar's last step: toolbar.onDrawingChange(...)
OnDrawingChange(t) == [t EXCEPT !.drawingChangeCallback = TRUE]

\* The geometry attributes of the element under construction are rewritten;
\* on a detached element this shows nowhere in the svg element.
SetGeometry(t, g) ==
    IF t.currentElement >= 1
    THEN [t EXCEPT !.svgElement.nodes[t.currentElement].g = g]
    ELSE t

StartElement(t, n) ==
    LET u == AppendNode(t, n)
    IN  [u EXCEPT !.currentElement = Len(u.svgElement.nodes)]

StartPenDrawing(t, point) ==
    [StartElement(t, Node("path", point, FALSE)) EXCEPT !.pathData = point]

\* continuePenDrawing that keeps only the press point and the current point,
\* as updateLine does for a line.
ContinuePenDrawingFromStart(t, point) ==
    IF t.currentElement = Null THEN t
    ELSE LET u == [t EXCEPT !.pathData = t.startPoint \o point]
         IN  SetGeometry(u, u.pathData)

ContinuePenDrawing(t, point) ==
    IF t.currentElement = Null THEN t
    ELSE LET u == [t EXCEPT !.pathData = @ \o point]
         IN  SetGeometry(u, u.pathData)

StartLineDrawing(t, point) ==
    StartElement(t, Node("line", point \o point, FALSE))

UpdateLine(t, point) ==
    IF t.currentElement < 1 THEN t
    ELSE LET g == t.svgElement.nodes[t.currentElement].g
         IN  SetGeometry(t, <<g[1], g[2], point[1], point[2]>>)

StartRectangleDrawing(t, point) ==
    StartElement(t, Node("rect", point \o <<0, 0>>, FALSE))

\* updateRectangle that anchors the rect at the press point and takes the
\* signed differences for its size.
UpdateRectangleSigned(t, point) ==
    IF t.currentElement = Null \/ t.startPoint = <<>> THEN t
    ELSE LET width == point[1] - t.startPoint[1]
             height == point[2] - t.startPoint[2]
         IN  SetGeometry(t, <<t.startPoint[1], t.startPoint[2], width, height>>)

UpdateRectangle(t, point) ==
    IF t.currentElement = Null \/ t.startPoint = <<>> THEN t
    ELSE LET width == Abs(point[1] - t.startPoint[1])
             height == Abs(point[2] - t.startPoint[2])
             x == Min(point[1], t.startPoint[1])
             y == Min(point[2], t.startPoint[2])
         IN  SetGeometry(t, <<x, y, width, height>>)

StartCircleDrawing(t, point) ==
    StartElement(t, Node("circle", point \o <<0>>, FALSE))

UpdateCircle(t, point) ==
    IF t.currentElement < 1 \/ t.startPoint = <<>> THEN t
    ELSE LET dx == point[1] - t.startPoint[1]
             dy == point[2] - t.startPoint[2]
             g == t.svgElement.nodes[t.currentElement].g
         IN  SetGeometry(t, <<g[1], g[2], dx * dx + dy * dy>>)

\* SVGGraphicsElement.getBBox() as <<x, y, width, height>>.
RECURSIVE PathBox(_, _)
PathBox(g, b) ==
    IF Len(g) < 2 THEN <<b[1], b[2], b[3] - b[1], b[4] - b[2]>>
    ELSE PathBox(SubSeq(g, 3, Len(g)),
                 <<Min(b[1], g[1]), Min(b[2], g[2]), Max(b[3], g[1]), Max(b[4], g[2])>>)

BBox(n) ==
    CASE n.tag = "rect" -> n.g
      [] n.tag = "line" -> <<Min(n.g[1], n.g[3]), Min(n.g[2], n.g[4]),
                             Abs(n.g[3] - n.g[1]), Abs(n.g[4] - n.g[2])>>
      [] n.tag = "circle" -> LET r == ISqrt(n.g[3])
                             IN  <<n.g[1] - r, n.g[2] - r, 2 * r, 2 * r>>
      [] OTHER -> PathBox(n.g, <<n.g[1], n.g[2], n.g[1], n.g[2]>>)

SelectElement(t, element) ==
    LET c == ClearSelection(t)
        \* the same element, after the old selection box left the child list
        e == IF t.selectionBox >= 1 THEN Unlink(element, t.selectionBox) ELSE element
        bbox == BBox(c.svgElement.nodes[e])
        box == Node("rect", <<bbox[1] - 2, bbox[2] - 2, bbox[3] + 4, bbox[4] + 4>>, TRUE)
        u == AppendNode([c EXCEPT !.selectedElement = e], box)
    IN  [u EXCEPT !.selectionBox = Len(u.svgElement.nodes)]

\* target: 0 is the svg element itself, k >= 1 its k-th child node.
HasDrawableTag(t, target) ==
    target >= 1 /\ t.svgElement.nodes[target].tag \in Drawable

HandleSelectClick(t, target) ==
    IF target = 0 \/ target = t.selectionBox THEN ClearSelection(t)
    ELSE IF HasDrawableTag(t, target) THEN SelectElement(t, target)
    ELSE ClearSelection(t)

\* handleEraserClick that removes its target without saveToHistory and
\* without the change callback.
HandleEraserClickUnrecorded(t, target) ==
    IF target = 0 \/ target = t.selectionBox THEN Res(t, FALSE)
    ELSE IF HasDrawableTag(t, target)
         THEN Res(RemoveNode(t, target), FALSE)
         ELSE Res(t, FALSE)

HandleEraserClick(t, target) ==
    IF target = 0 \/ target = t.selectionBox THEN Res(t, FALSE)
    ELSE IF HasDrawableTag(t, target)
         THEN Committed(RemoveNode(t, target))
         ELSE Res(t, FALSE)

\* handleMouseDown that starts a drag whatever the tool, as the toolbar did
\* before it had a Select and an Eraser tool.
HandleMouseDownAnyTool(t, point, target) ==
    LET u == [ClearSelection(t) EXCEPT !.isDrawing = TRUE, !.startPoint = point]
    IN  Res(CASE t.activeTool = "pen" -> StartPenDrawing(u, point)
              [] t.activeTool = "line" -> StartLineDrawing(u, point)
              [] t.activeTool = "rectangle" -> StartRectangleDrawing(u, point)
              [] t.activeTool = "circle" -> StartCircleDrawing(u, point)
              [] OTHER -> u,
            FALSE)

HandleMouseDown(t, point, target) ==
    IF t.activeTool = "select" THEN Res(HandleSelectClick(t, target), FALSE)
    ELSE IF t.activeTool = "eraser" THEN HandleEraserClick(t, target)
    ELSE LET u == [ClearSelection(t) EXCEPT !.isDrawing = TRUE, !.startPoint = point]
         IN  Res(CASE t.activeTool = "pen" -> StartPenDrawing(u, point)
                   [] t.activeTool = "line" -> StartLineDrawing(u, point)
                   [] t.activeTool = "rectangle" -> StartRectangleDrawing(u, point)
                   [] OTHER -> StartCircleDrawing(u, point),
                 FALSE)

HandleMouseMove(t, point) ==
    IF ~t.isDrawing THEN t
    ELSE CASE t.activeTool = "pen" -> ContinuePenDrawing(t, point)
           [] t.activeTool = "line" /\ t.currentElement # Null -> UpdateLine(t, point)
           [] t.activeTool = "rectangle" /\ t.currentElement # Null -> UpdateRectangle(t, point)
           [] t.activeTool = "circle" /\ t.currentElement # Null -> UpdateCircle(t, point)
           [] OTHER -> t

\* A primitive as the press alone leaves it: a path of one point, a
\* line from a point to itself, a rect of width and height 0, a circle of
\* radius 0.
ZeroSize(n) ==
    CASE n.tag = "path" -> Len(n.g) = 2
      [] n.tag = "line" -> n.g[1] = n.g[3] /\ n.g[2] = n.g[4]
      [] n.tag = "rect" -> n.g[3] = 0 /\ n.g[4] = 0
      [] n.tag = "circle" -> n.g[3] = 0
      [] OTHER -> FALSE

\* handleMouseUp with a minimum-size check: a primitive that never grew is
\* taken out again and nothing is committed.
HandleMouseUpMinSize(t) ==
    IF ~t.isDrawing THEN Res(t, FALSE)
    ELSE LET u == [t EXCEPT !.isDrawing = FALSE, !.currentElement = Null,
                            !.startPoint = <<>>, !.pathData = <<>>]
         IN  IF t.currentElement >= 1 /\ ZeroSize(t.svgElement.nodes[t.currentElement])
             THEN Res([RemoveNode(t, t.currentElement) EXCEPT
                          !.isDrawing = FALSE, !.currentElement = Null,
                          !.startPoint = <<>>, !.pathData = <<>>], FALSE)
             ELSE Committed(u)

HandleMouseUp(t) ==
    IF ~t.isDrawing THEN Res(t, FALSE)
    ELSE Committed([t EXCEPT !.isDrawing = FALSE, !.currentElement = Null,
                               !.startPoint = <<>>, !.pathData = <<>>])

\* key: "z" is Ctrl/Cmd+Z, "y" is Ctrl/Cmd+Shift+Z or Ctrl/Cmd+Y, "Delete" is
\* Delete or Backspace; any other key leaves the toolbar alone.
HandleKeyDown(t, key) ==
    CASE key = "z" -> IF CanUndo(t) THEN Undo(t) ELSE Res(t, FALSE)
      [] key = "y" -> IF CanRedo(t) THEN Redo(t) ELSE Res(t, FALSE)
      [] key = "Delete" ->
            IF t.selectedElement # Null
            THEN Committed(ClearSelection(RemoveNode(t, t.selectedElement)))
            ELSE Res(t, FALSE)
      [] OTHER -> Res(t, FALSE)

\* toolbarEls counts the toolbar elements attached to the container, up to
\* MaxToolbarEls; destroy() removes the one toolbarEl refers to.
Destroy(t) ==
    LET u == IF t.toolbarEl
             THEN [t EXCEPT !.toolbarEl = FALSE, !.toolbarEls = Max(@ - 1, 0)]
             ELSE t
    IN  ClearSelection(u)


(***************************************************************************)
(* The world: every object of the plugin, as one value.  A handler is an   *)
(* operator from the world before it to the world after it; `out` gathers  *)
(* what the handler did besides: notifications shown, save-callbacks       *)
(* invoked, the error it ended with, the sessions whose toolbar committed  *)
(* a mutation (called saveToHistory) and the history entries that cut off, *)
(* the sessions that asked for confirmation and those the user confirmed.  *)
(***************************************************************************)
NoOut ==
    [notices |-> 0, callbacks |-> 0, err |-> "none",
     committed |-> {}, discarded |-> 0, asked |-> {}, confirmed |-> {}]

World ==
    [tb |-> tb, ed |-> ed, file |-> file, tasks |-> tasks,
     activeEditor |-> activeEditor, host |-> host, loaded |-> loaded, out |-> NoOut]

\* new Notice(...), n times
Notice(w, n) == [w EXCEPT !.out.notices = @ + n]

\* an exception leaves the handler: err names it
Throw(w, err) == [w EXCEPT !.out.err = err]

\* A toolbar method ran on session s; drawingChangeCallback sets the dirty flag.
WithToolbar(w, s, r) ==
    [w EXCEPT !.tb[s] = r.t,
              !.ed[s].hasUnsavedChanges = IF r.fire THEN TRUE ELSE @,
              !.out.committed = IF r.saved THEN @ \cup {s} ELSE @,
              !.out.discarded = IF r.saved
                                THEN Len(w.tb[s].history) - (w.tb[s].historyIndex + 1)
                                ELSE @]

(***************************************************************************)
(* InlineSVGEditor                                                         *)
(***************************************************************************)
NoEditor ==
    [kind |-> "none", containerEl |-> FALSE, svgElement |-> FALSE, toolbar |-> FALSE,
     originalElement |-> FALSE, parentElement |-> FALSE, hasUnsavedChanges |-> FALSE,
     keydownHandler |-> FALSE, inDocument |-> FALSE, overlay |-> 0,
     closePatched |-> FALSE]

\* loadSVGContent that sizes the canvas through the width and height
\* attributes of the svg element, not through its style.
LoadSVGContentSizedByAttributes(w, s, svgContent) ==
    IF HasSvgRoot(svgContent)
    THEN LET svgEl == ParseSvg(svgContent)
         IN  [w EXCEPT !.ed[s].svgElement = TRUE,
                       !.tb[s].svgElement = [svgEl EXCEPT !.attrs.width = 100,
                                                          !.attrs.height = 100]]
    ELSE Notice(w, 1)

\* createEditorContainer, loadSVGContent, createToolbar, mounting the
\* container, setupEventListeners: what replaceElement and open do once the
\* content is loaded.
LoadSVGContent(w, s, svgContent) ==
    IF HasSvgRoot(svgContent)
    THEN LET svgEl == ParseSvg(svgContent)
         IN  [w EXCEPT !.ed[s].svgElement = TRUE,
                       !.tb[s].svgElement = [svgEl EXCEPT !.attrs.style = TRUE]]
    ELSE Notice(w, 1)

CreateToolbar(w, s) ==
    IF ~w.ed[s].containerEl \/ ~w.ed[s].svgElement THEN w
    ELSE [w EXCEPT !.ed[s].toolbar = TRUE,
                   !.tb[s] = OnDrawingChange(Render(NewToolbar(w.tb[s].svgElement)))]

SetupEventListeners(w, s) == [w EXCEPT !.ed[s].keydownHandler = TRUE]

MountEditor(w, s, svgContent) ==
    LET w1 == [w EXCEPT !.ed[s].containerEl = TRUE]
        w2 == CreateToolbar(LoadSVGContent(w1, s, svgContent), s)
    IN  SetupEventListeners([w2 EXCEPT !.ed[s].inDocument = TRUE], s)

\* close() that leaves its four references set.
OriginalCloseKeepsReferences(w, s) ==
    LET e == w.ed[s]
        w1 == IF e.containerEl /\ e.keydownHandler
              THEN [w EXCEPT !.ed[s].keydownHandler = FALSE] ELSE w
        w2 == IF e.toolbar
              THEN [w1 EXCEPT !.tb[s] = Destroy(@), !.ed[s].toolbar = FALSE] ELSE w1
    IN  IF e.originalElement /\ e.parentElement /\ e.containerEl
        THEN IF e.inDocument THEN [w2 EXCEPT !.ed[s].inDocument = FALSE]
             ELSE Throw(w2, "NotFoundError")
        ELSE IF e.containerEl THEN [w2 EXCEPT !.ed[s].inDocument = FALSE] ELSE w2

\* InlineSVGEditor.close as written in the class.  replaceChild throws
\* NotFoundError when the container is no longer a child of the parent, and
\* the references are then left as they were.
OriginalClose(w, s) ==
    LET e == w.ed[s]
        w1 == IF e.containerEl /\ e.keydownHandler
              THEN [w EXCEPT !.ed[s].keydownHandler = FALSE] ELSE w
        w2 == IF e.toolbar
              THEN [w1 EXCEPT !.tb[s] = Destroy(@), !.ed[s].toolbar = FALSE] ELSE w1
        w3 == IF e.containerEl THEN [w2 EXCEPT !.ed[s].inDocument = FALSE] ELSE w2
    IN  IF e.originalElement /\ e.parentElement /\ e.containerEl /\ ~e.inDocument
        THEN Throw(w2, "NotFoundError")
        ELSE [w3 EXCEPT !.ed[s].containerEl = FALSE, !.ed[s].svgElement = FALSE,
                        !.ed[s].originalElement = FALSE, !.ed[s].parentElement = FALSE]

\* session.close(): createNewDrawing replaces the method by one that also
\* removes the modal overlay and clears the registry.
Close(w, s) ==
    LET c == OriginalClose(w, s)
    IN  IF w.ed[s].closePatched /\ c.out.err = w.out.err
        THEN [c EXCEPT !.ed[s].overlay = 0, !.activeEditor = Null]
        ELSE c

\* The onSave callback each entry point passes to the session it creates.
OnSaveCallback(w, s) ==
    LET w1 == IF w.ed[s].kind = "new" THEN [w EXCEPT !.host[s] = @ + 1] ELSE w
    IN  [w1 EXCEPT !.activeEditor = Null, !.out.callbacks = @ + 1]

\* handleSave after `await this.save()` returned.
AfterHandleSave(w, s) == Close(OnSaveCallback(Notice(w, 1), s), s)

(***************************************************************************)
(* Awaited vault operations.  A task is [io, s, k, r, c]: the operation    *)
(* (create, load, write), the session whose file it is about, the function *)
(* that awaits it (k) on behalf of session r, and the content being        *)
(* written.                                                                *)
(***************************************************************************)
Task(io, s, k, r, c) == [io |-> io, s |-> s, k |-> k, r |-> r, c |-> c]

Await(w, task) == [w EXCEPT !.tasks = Append(@, task)]

RECURSIVE SetActiveEditor(_, _)

\* replaceElement up to `await this.svgFileManager.loadSVG`; a missing file
\* rejects at once, replaceElement reports it and openInlineEditor goes on to
\* register the session.
ReplaceElement(w, r) ==
    LET w1 == [w EXCEPT !.ed[r].originalElement = TRUE, !.ed[r].parentElement = TRUE]
    IN  IF w.file[r].root = "none"
        THEN SetActiveEditor(Notice(w1, 1), r)
        ELSE Await(w1, Task("load", r, "replaceElement", r, NoMarkup))

\* What follows closeActiveEditor in the function k that awaited it.
AfterCloseActive(w, k, r) ==
    CASE k = "openInlineEditor" -> ReplaceElement(w, r)
      [] k = "setActiveEditor" -> [w EXCEPT !.activeEditor = r]
      [] OTHER -> w

\* closeActiveEditor after `await this.activeEditor.save()` returned: the
\* field is read again, and is null when the session cleared it meanwhile.
AfterActiveSave(w, k, r) ==
    IF w.activeEditor = Null THEN Throw(w, "TypeError")
    ELSE AfterCloseActive([Close(w, w.activeEditor) EXCEPT !.activeEditor = Null], k, r)

AfterSave(w, a, k, r) ==
    IF k = "handleSave" THEN AfterHandleSave(w, a) ELSE AfterActiveSave(w, k, r)

\* save() of session a, called by k on behalf of r: without an svg element it
\* returns at once, otherwise it serializes now and awaits the write.
Save(w, a, k, r) ==
    IF ~w.ed[a].svgElement THEN AfterSave(w, a, k, r)
    ELSE Await(w, Task("write", a, k, r,
                       [Serialize(w.tb[a].svgElement) EXCEPT !.decl = TRUE]))

CloseActiveEditor(w, k, r) ==
    IF w.activeEditor # Null THEN Save(w, w.activeEditor, k, r)
    ELSE AfterCloseActive(w, k, r)

SetActiveEditor(w, editor) ==
    IF w.activeEditor # Null /\ w.activeEditor # editor
    THEN CloseActiveEditor(w, "setActiveEditor", editor)
    ELSE [w EXCEPT !.activeEditor = editor]

HandleSave(w, s) == Save(w, s, "handleSave", s)

\* handleCancel that closes without looking at the dirty flag.
HandleCancelNoConfirm(w, s, confirmed) == Close(w, s)

\* confirmed: what confirm() returns, if it is called.
HandleCancel(w, s, confirmed) ==
    IF w.ed[s].hasUnsavedChanges
    THEN LET w1 == [w EXCEPT !.out.asked = @ \cup {s},
                             !.out.confirmed = IF confirmed THEN @ \cup {s} ELSE @]
         IN  IF ~confirmed THEN w1 ELSE Close(w1, s)
    ELSE Close(w, s)


(***************************************************************************)
(* The state machine                                                       *)
(***************************************************************************)
InvalidMarkup == [NoMarkup EXCEPT !.root = "html"]

OneRectSVG ==
    [decl |-> TRUE, root |-> "svg", attrs |-> Attrs(defaultWidth, defaultHeight, FALSE),
     nodes |-> <<Node("rect", <<1, 1, 1, 1>>, FALSE)>>]

Init ==
    /\ tb = [s \in Sessions |-> NoToolbar]
    /\ ed = [s \in Sessions |-> NoEditor]
    /\ file = [s \in Sessions |-> NoMarkup]
    /\ tasks = <<>>
    /\ activeEditor = Null
    /\ host = [s \in Sessions |-> 0]
    /\ loaded = TRUE
    /\ ev = [op |-> "init", s |-> 0, k |-> "", r |-> 0] @@ NoOut
    /\ before = [s \in Sessions |-> <<>>]

\* The primitives of the canvas document: the drawable children of the svg
\* element, without the selection overlay the toolbar shows.
CanvasPrimitives(t) ==
    Primitives(IF t.selectionBox >= 1 THEN RemoveAt(t.svgElement.nodes, t.selectionBox)
               ELSE t.svgElement.nodes)

\* The handler of event op (on session s, or 0 for a document-level event)
\* took the world to w; k names the function that was awaiting, on behalf of
\* session r, when the event is the end of a vault operation.  `before`
\* keeps, per session, the canvas document as it was when the gesture that
\* is under way, or was committed last, began.
CommitK(op, s, k, r, w) ==
    /\ tb' = w.tb
    /\ ed' = w.ed
    /\ file' = w.file
    /\ tasks' = w.tasks
    /\ activeEditor' = w.activeEditor
    /\ host' = w.host
    /\ loaded' = w.loaded
    /\ ev' = [op |-> op, s |-> s, k |-> k, r |-> r] @@ w.out
    /\ before' = [x \in Sessions |->
                    IF ~tb[x].isDrawing /\ (w.tb[x].isDrawing \/ x \in w.out.committed)
                    THEN CanvasPrimitives(tb[x]) ELSE before[x]]

Commit(op, s, w) == CommitK(op, s, "", 0, w)

\* The stacking level of the topmost modal overlay (0: none).
TopOverlay ==
    CHOOSE m \in 0..Cardinality(Sessions) :
        /\ \A s \in Sessions : ed[s].overlay <= m
        /\ m = 0 \/ \E s \in Sessions : ed[s].overlay = m

\* The session's editor surface is in the page and not covered by another
\* session's modal overlay, so the pointer can reach it.
Visible(s) == ed[s].inDocument /\ ed[s].overlay = TopOverlay

CanPoint(s) == Visible(s) /\ tb[s].made

CanClickToolbar(s) == Visible(s) /\ tb[s].toolbarEls > 0 /\ ~tb[s].isDrawing

\* What a pointer-down on the svg element can hit: the element itself (0) or a
\* child that takes pointer events.
Targets(t) ==
    {0} \cup {k \in 1..Len(t.svgElement.nodes) :
                 t.svgElement.nodes[k].tag \in Drawable /\ ~t.svgElement.nodes[k].box}

MouseDown(s, point, target) ==
    /\ CanPoint(s)
    /\ target \in Targets(tb[s])
    /\ Commit("mousedown", s, WithToolbar(World, s, HandleMouseDown(tb[s], point, target)))

MouseMove(s, point) ==
    /\ CanPoint(s)
    /\ Commit("mousemove", s, WithToolbar(World, s, Res(HandleMouseMove(tb[s], point), FALSE)))

\* mouseup and mouseleave
MouseUp(s) ==
    /\ CanPoint(s)
    /\ Commit("mouseup", s, WithToolbar(World, s, HandleMouseUp(tb[s])))

ClickTool(s, tool) ==
    /\ CanClickToolbar(s)
    /\ Commit("tool", s, WithToolbar(World, s, Res(SetActiveTool(tb[s], tool), FALSE)))

ClickUndo(s) ==
    /\ CanClickToolbar(s)
    /\ CanUndo(tb[s])
    /\ Commit("undo", s, WithToolbar(World, s, Undo(tb[s])))

ClickRedo(s) ==
    /\ CanClickToolbar(s)
    /\ CanRedo(tb[s])
    /\ Commit("redo", s, WithToolbar(World, s, Redo(tb[s])))

ClickSave(s) ==
    /\ CanClickToolbar(s)
    /\ Commit("save", s, HandleSave(World, s))

ClickCancel(s, confirmed) ==
    /\ CanClickToolbar(s)
    /\ Commit("cancel", s, HandleCancel(World, s, confirmed))

\* A keydown event reaches every listener attached to the document: the
\* toolbars' (never removed) and the sessions' (removed by close).  confirmed
\* is the set of sessions whose confirm() dialog the user accepts.
RECURSIVE Dispatch(_, _, _, _)
Dispatch(w, key, confirmed, todo) ==
    IF todo = {} THEN w
    ELSE LET s == CHOOSE x \in todo : \A y \in todo : x <= y
             w1 == IF w.tb[s].made
                   THEN WithToolbar(w, s, HandleKeyDown(w.tb[s], key)) ELSE w
             w2 == IF ~w1.ed[s].keydownHandler THEN w1
                   ELSE IF key = "s" THEN HandleSave(w1, s)
                   ELSE IF key = "Escape" THEN HandleCancel(w1, s, s \in confirmed)
                   ELSE w1
         IN  Dispatch(w2, key, confirmed, todo \ {s})

Listening(s, key) ==
    IF key \in {"s", "Escape"} THEN ed[s].keydownHandler ELSE tb[s].made

KeyDown(key, confirmed) ==
    /\ \E s \in Sessions : Listening(s, key)
    /\ Commit(key, 0, Dispatch(World, key, confirmed, Sessions))

\* Session objects are taken in order.
Fresh(s) == ed[s].kind = "none" /\ \A x \in Sessions : x < s => ed[x].kind # "none"

\* The "Create new drawing" command.
CreateNewDrawing(s) ==
    /\ loaded
    /\ Fresh(s)
    /\ Commit("createNewDrawing", s,
              Await([World EXCEPT !.ed[s].kind = "new"],
                    Task("create", s, "createNewDrawing", s, NoMarkup)))

\* A click on the embed of an existing file; svgContent is what the vault
\* holds at that path (NoMarkup: no such file).
OpenInlineEditor(s, svgContent) ==
    /\ loaded
    /\ Fresh(s)
    /\ TopOverlay = 0
    /\ Commit("openInlineEditor", s,
              CloseActiveEditor([World EXCEPT !.ed[s].kind = "embed",
                                              !.file[s] = svgContent],
                                "openInlineEditor", s))

OnUnload ==
    /\ loaded
    /\ Commit("onunload", 0, CloseActiveEditor([World EXCEPT !.loaded = FALSE], "onunload", 0))

Done(w, i) == [w EXCEPT !.tasks = RemoveAt(@, i)]

\* vault.create resolved: createNewDrawing builds the session and the modal
\* overlay and calls open(), which awaits the load.
CreateOk(i) ==
    /\ i \in 1..Len(tasks)
    /\ tasks[i].io = "create"
    /\ LET s == tasks[i].s
           w == [Done(World, i) EXCEPT !.file[s] = EmptySVG,
                                       !.ed[s].overlay = TopOverlay + 1,
                                       !.ed[s].parentElement = TRUE]
       IN  CommitK("createOk", s, tasks[i].k, tasks[i].r, Await(w, Task("load", s, "open", s, NoMarkup)))

\* vault.create rejected: createNewSVG and createNewDrawing each report it.
CreateFail(i) ==
    /\ i \in 1..Len(tasks)
    /\ tasks[i].io = "create"
    /\ CommitK("createFail", tasks[i].s, tasks[i].k, tasks[i].r, Notice(Done(World, i), 2))

\* vault.read resolved.
LoadOk(i) ==
    /\ i \in 1..Len(tasks)
    /\ tasks[i].io = "load"
    /\ LET s == tasks[i].s
           w == SetActiveEditor(MountEditor(Done(World, i), s, file[s]), s)
       IN  CommitK("loadOk", s, tasks[i].k, tasks[i].r,
                  IF tasks[i].k = "open" THEN [w EXCEPT !.ed[s].closePatched = TRUE] ELSE w)

\* vault.read rejected: loadSVG reports it and re-throws; replaceElement
\* reports it again and returns, open lets it escape.
LoadFail(i) ==
    /\ i \in 1..Len(tasks)
    /\ tasks[i].io = "load"
    /\ LET s == tasks[i].s
       IN  CommitK("loadFail", s, tasks[i].k, tasks[i].r,
                  IF tasks[i].k = "open" THEN Throw(Notice(Done(World, i), 1), "rethrown")
                  ELSE SetActiveEditor(Notice(Done(World, i), 2), s))

\* vault.modify resolved: save() clears the dirty flag and its caller goes on.
WriteOk(i) ==
    /\ i \in 1..Len(tasks)
    /\ tasks[i].io = "write"
    /\ LET a == tasks[i].s
           w == [Done(World, i) EXCEPT !.file[a] = tasks[i].c,
                                       !.ed[a].hasUnsavedChanges = FALSE]
       IN  CommitK("writeOk", a, tasks[i].k, tasks[i].r, AfterSave(w, a, tasks[i].k, tasks[i].r))

\* save() that reports the failed write and returns normally.
WriteFailSwallowed(i) ==
    /\ i \in 1..Len(tasks)
    /\ tasks[i].io = "write"
    /\ CommitK("writeFail", tasks[i].s, tasks[i].k, tasks[i].r,
               AfterSave(Notice(Done(World, i), 2), tasks[i].s, tasks[i].k, tasks[i].r))

\* vault.modify rejected: saveSVG and save() each report it and re-throw.
WriteFail(i) ==
    /\ i \in 1..Len(tasks)
    /\ tasks[i].io = "write"
    /\ CommitK("writeFail", tasks[i].s, tasks[i].k, tasks[i].r, Throw(Notice(Done(World, i), 2), "rethrown"))


(***************************************************************************)
(* Specifications.  Each draws the events from small sets and stops        *)
(* growth at the bounds: no new awaited operation beyond MaxTasks, no new   *)
(* node beyond MaxNodes, no new history entry beyond MaxHist, no path       *)
(* longer than MaxPath points.  A tool button is reached with the pointer,  *)
(* which leaves the svg element first (mouseleave ends a drag).             *)
(***************************************************************************)
Room(n) == Len(tasks) + n <= MaxTasks

\* A mutation cuts the history at the cursor before it appends.
MayMutate(s, h) == tb[s].historyIndex + 2 <= h

MayDraw(s, n, h) == MayMutate(s, h) /\ Len(tb[s].svgElement.nodes) < n

MayPress(s, n, h) ==
    CASE tb[s].activeTool = "select" -> Len(tb[s].svgElement.nodes) <= n
      [] tb[s].activeTool = "eraser" -> MayMutate(s, h)
      [] OTHER -> MayDraw(s, n, h)

MayMove(s) == tb[s].isDrawing /\ Len(tb[s].pathData) < 2 * MaxPath

MayDelete(h) == \A s \in Sessions : tb[s].selectedElement # Null => MayMutate(s, h)

Handlers == {s \in Sessions : ed[s].keydownHandler}

\* A press with the active tool and the release that ends the drag.
Gesture(S, P, n, h) ==
    \/ \E s \in S, p \in P, k \in 0..n : MayPress(s, n, h) /\ MouseDown(s, p, k)
    \/ \E s \in S : (tb[s].isDrawing => MayMutate(s, h)) /\ MouseUp(s)

Pointer(S, T, P, n, h) ==
    \/ Gesture(S, P, n, h)
    \/ \E s \in S, p \in P : MayMove(s) /\ MouseMove(s, p)
    \/ \E s \in S, tool \in T : ClickTool(s, tool)
    \/ \E s \in S : ClickUndo(s)
    \/ \E s \in S : ClickRedo(s)

Keys(h) ==
    \/ KeyDown("z", {})
    \/ KeyDown("y", {})
    \/ MayDelete(h) /\ KeyDown("Delete", {})

Lifecycle(S, F) ==
    \/ \E s \in S : Room(1) /\ CreateNewDrawing(s)
    \/ \E s \in S, c \in F : Room(1) /\ OpenInlineEditor(s, c)
    \/ Room(1) /\ OnUnload
    \/ \E s \in S : Room(1) /\ ClickSave(s)
    \/ \E s \in S, confirmed \in BOOLEAN : ClickCancel(s, confirmed)
    \/ Room(Cardinality(Handlers)) /\ KeyDown("s", {})
    \/ \E confirmed \in SUBSET Handlers : KeyDown("Escape", confirmed)

Vault ==
    \/ \E i \in 1..MaxTasks : CreateOk(i)
    \/ \E i \in 1..MaxTasks : CreateFail(i)
    \/ \E i \in 1..MaxTasks : LoadOk(i)
    \/ \E i \in 1..MaxTasks : LoadFail(i)
    \/ \E i \in 1..MaxTasks : WriteOk(i)
    \/ \E i \in 1..MaxTasks : WriteFail(i)

\* Spec: two sessions and the registry; each session draws with the pen.
RegistryFiles == {EmptySVG, InvalidMarkup, NoMarkup}

OnePoint == {<<1, 1>>}

Next ==
    \/ Gesture(Sessions, OnePoint, RegNodes, RegHist)
    \/ Lifecycle(Sessions, RegistryFiles)
    \/ Vault

Spec == Init /\ [][Next]_vars

\* SpecDraw: one session, opened on an existing drawing, and every tool of
\* its toolbar.
\* A drawing as save() writes it, without primitives.
SavedSVG ==
    [decl |-> TRUE, root |-> "svg", attrs |-> Attrs(defaultWidth, defaultHeight, TRUE),
     nodes |-> <<>>]

DrawFiles == {EmptySVG, SavedSVG, OneRectSVG}

DrawPoints == {<<2, 2>>}

OpenDrawing(F) ==
    \/ \E c \in F : ed[1].kind = "none" /\ OpenInlineEditor(1, c)
    \/ LoadOk(1)

NextDraw ==
    \/ OpenDrawing(DrawFiles)
    \/ Pointer({1}, Tools, DrawPoints, MaxNodes, MaxHist)
    \/ Keys(MaxHist)

SpecDraw == Init /\ [][NextDraw]_vars

\* SpecLong: one session on a drawing without primitives; the user draws a
\* stroke on the empty canvas, erases it, and between gestures undoes and
\* redoes, without end, so that the history fills up to maxHistorySize and
\* beyond.
LongTools == {"pen", "eraser"}

LongPress(s) ==
    \/ tb[s].activeTool = "pen" /\ tb[s].svgElement.nodes = <<>> /\ MouseDown(s, <<1, 1>>, 0)
    \/ tb[s].activeTool = "eraser" /\ MouseDown(s, <<1, 1>>, 1)

NextLong ==
    \/ OpenDrawing({SavedSVG})
    \/ LongPress(1)
    \/ MouseUp(1)
    \/ \E tool \in LongTools : ClickTool(1, tool)
    \/ ~tb[1].isDrawing /\ KeyDown("z", {})
    \/ ~tb[1].isDrawing /\ KeyDown("y", {})

SpecLong == Init /\ [][NextLong]_vars

\* SpecRedo: one session and the history of its toolbar: pen strokes, eraser
\* hits and Delete-key deletions, with undo and redo by button and by key,
\* between gestures and during a drag.
RedoTools == {"pen", "select", "eraser"}

RedoFiles == {SavedSVG, OneRectSVG}

NextRedo ==
    \/ OpenDrawing(RedoFiles)
    \/ Gesture({1}, DrawPoints, MaxNodes, MaxHist)
    \/ \E tool \in RedoTools : ClickTool(1, tool)
    \/ ClickUndo(1)
    \/ ClickRedo(1)
    \/ Keys(MaxHist)

SpecRedo == Init /\ [][NextRedo]_vars

\* SpecOne: the life of one session, from either entry point to its end by
\* save, cancel or unload, with every vault operation resolving or rejecting.
NextOne ==
    \/ Gesture({1}, OnePoint, RegNodes, RegHist)
    \/ Lifecycle({1}, RegistryFiles)
    \/ Vault

SpecOne == Init /\ [][NextOne]_vars

\* SpecEdit: one session from either entry point to its end, with the pen,
\* the selection and the eraser, the toolbar's keys, and every vault
\* operation resolving or rejecting.
EditFiles == {OneRectSVG}

EditTools == {"select", "eraser"}

NextEdit ==
    \/ Gesture({1}, OnePoint, RegNodes, RegHist)
    \/ \E tool \in EditTools : ClickTool(1, tool)
    \/ Keys(RegHist)
    \/ Lifecycle({1}, EditFiles)
    \/ Vault

SpecEdit == Init /\ [][NextEdit]_vars

\* SpecPoint: one session and the pointer: the pen, the Select and the Eraser
\* tool, and presses, moves and releases whether or not a drag is under way.
NextPoint ==
    \/ OpenDrawing({OneRectSVG})
    \/ \E tool \in RedoTools : ClickTool(1, tool)
    \/ \E k \in 0..MaxNodes : MayPress(1, MaxNodes, MaxHist) /\ MouseDown(1, <<2, 2>>, k)
    \/ (tb[1].isDrawing => MayMove(1)) /\ MouseMove(1, <<3, 1>>)
    \/ (tb[1].isDrawing => MayMutate(1, MaxHist)) /\ MouseUp(1)

SpecPoint == Init /\ [][NextPoint]_vars

\* SpecTrip: one session from load to save: a new blank drawing, or an embed
\* of an existing drawing with or without primitives, edited or left alone,
\* then saved, cancelled or unloaded.
WideSVG ==
    [decl |-> FALSE, root |-> "svg", attrs |-> Attrs(400, 300, FALSE),
     nodes |-> <<CommentNode, Node("line", <<1, 1, 2, 2>>, FALSE)>>]

TripFiles == {OneRectSVG, WideSVG}

NextTrip ==
    \/ Gesture({1}, OnePoint, RegNodes, RegHist)
    \/ Lifecycle({1}, TripFiles)
    \/ Vault

SpecTrip == Init /\ [][NextTrip]_vars

\* SpecPen: one session on a drawing without primitives and the Pen tool:
\* presses at one point, moves along a route through two others (or anywhere
\* when no drag is under way), releases, and undo by key between and
\* during the drags.
PenStart == <<1, 1>>

PenMoves == {<<2, 1>>, <<2, 2>>}

\* The k-th move of a drag goes right, then down, in turn.
PenRoute(k) == IF k % 2 = 1 THEN <<2, 1>> ELSE <<2, 2>>

NextPen ==
    \/ OpenDrawing({SavedSVG})
    \/ MayDraw(1, MaxNodes, MaxHist) /\ MouseDown(1, PenStart, 0)
    \/ \E p \in PenMoves :
          /\ tb[1].isDrawing =>
                /\ Len(tb[1].pathData) < 2 * (MaxPath + 1)
                /\ p = PenRoute(Len(tb[1].pathData) \div 2)
          /\ MouseMove(1, p)
    \/ (tb[1].isDrawing => MayMutate(1, MaxHist)) /\ MouseUp(1)
    \/ KeyDown("z", {})

SpecPen == Init /\ [][NextPen]_vars

\* SpecRect: one session on a drawing without primitives and the Rectangle
\* tool: presses in the middle of the empty canvas, moves to every side of
\* the press point and back onto it, releases, and undo by key.
RectStart == <<2, 2>>

RectPoints == {<<x, y>> : x \in 1..3, y \in 1..3}

NextRect ==
    \/ OpenDrawing({SavedSVG})
    \/ ClickTool(1, "rectangle")
    \/ /\ tb[1].activeTool = "rectangle"
       /\ tb[1].svgElement.nodes = <<>>
       /\ MouseDown(1, RectStart, 0)
    \/ \E p \in RectPoints : tb[1].isDrawing /\ MouseMove(1, p)
    \/ MouseUp(1)
    \/ KeyDown("z", {})

SpecRect == Init /\ [][NextRect]_vars

\* SpecClick: one session on a drawing without primitives and the four
\* drawing tools: clicks on the canvas (a press and a release with no move
\* in between), and undo by key.
ClickTools == {"pen", "line", "rectangle", "circle"}

NextClick ==
    \/ OpenDrawing({SavedSVG})
    \/ \E tool \in ClickTools : ClickTool(1, tool)
    \/ MayDraw(1, RegNodes, RegHist) /\ MouseDown(1, <<2, 2>>, 0)
    \/ (tb[1].isDrawing => MayMutate(1, RegHist)) /\ MouseUp(1)
    \/ KeyDown("z", {})

SpecClick == Init /\ [][NextClick]_vars

\* SpecDirty: one session on a stored drawing and its dirty flag: pen
\* strokes, undo and redo by key, the Save and the Cancel button, with every
\* vault operation resolving or rejecting.
NextDirty ==
    \/ ed[1].kind = "none" /\ OpenInlineEditor(1, OneRectSVG)
    \/ Gesture({1}, OnePoint, RegNodes, RegHist)
    \/ KeyDown("z", {})
    \/ KeyDown("y", {})
    \/ Room(1) /\ ClickSave(1)
    \/ \E confirmed \in BOOLEAN : ClickCancel(1, confirmed)
    \/ \E i \in 1..MaxTasks : LoadOk(i)
    \/ \E i \in 1..MaxTasks : LoadFail(i)
    \/ \E i \in 1..MaxTasks : WriteOk(i)
    \/ \E i \in 1..MaxTasks : WriteFail(i)

SpecDirty == Init /\ [][NextDirty]_vars

(***************************************************************************)
(* Properties                                                              *)
(***************************************************************************)
Current(t) == t.history[t.historyIndex + 1]

C2_UndoRedoInverse ==
    \A s \in Sessions :
        s \in ev.committed =>
            LET u == Undo(tb[s]).t
                r == Redo(u).t
            IN  /\ CanvasPrimitives(u) = before[s]
                /\ CanvasPrimitives(r) = CanvasPrimitives(tb[s])

\* C3: a committed mutation leaves nothing in the history beyond the entry
\* it appends, whatever undo() left there, so that the cursor is on the last
\* entry and a redo() changes nothing.
C3_RedoInvalidated ==
    [][\A s \in Sessions :
          s \in ev'.committed =>
              /\ Len(tb'[s].history) = Min(tb[s].historyIndex + 2, maxHistorySize)
              /\ tb'[s].historyIndex = Len(tb'[s].history) - 1
              /\ ~CanRedo(tb'[s])
              /\ Redo(tb'[s]).t = tb'[s]]_vars

\* Two shapes drawn, two undos back to the seed, one new shape: the mutation
\* cut two entries off, and the history has length 2 with the cursor at 1.
C3_Witness ==
    /\ ev.op = "mouseup"
    /\ 1 \in ev.committed
    /\ ev.discarded = 2
    /\ Len(tb[1].history) = 2
    /\ tb[1].historyIndex = 1
    /\ Len(CanvasPrimitives(tb[1])) = 1

\* C4: once setActiveEditor(r), called while another session was active, has
\* ended, with the prior session's save resolved or rejected, the registry
\* holds r, and the prior session is closed.
C4_ActivationReplacesPrior ==
    (ev.k = "setActiveEditor" /\ ev.op \in {"writeOk", "writeFail"}) =>
        /\ activeEditor = ev.r
        /\ ~ed[ev.s].inDocument

Open(s) == ed[s].inDocument /\ ed[s].keydownHandler

\* C5: at most one session is open (its editor surface mounted and its key
\* listener attached).
C5_AtMostOneOpen == Cardinality({s \in Sessions : Open(s)}) <= 1

Outstanding(s) ==
    \E i \in 1..Len(tasks) : tasks[i].s = s /\ tasks[i].io \in {"load", "write"}

Writes(T, s) == Cardinality({i \in 1..Len(T) : T[i].s = s /\ T[i].io = "write"})

UserEvents ==
    {"mousedown", "mousemove", "mouseup", "tool", "undo", "redo", "save", "cancel",
     "z", "y", "Delete", "s", "Escape"}

\* C6: while a load or a save of a session is outstanding, a pointer or key
\* event changes neither its canvas document, nor its history, nor its dirty
\* flag, nor whether it is open, and starts no further save of it.
C6_NothingProceedsWhileAwaiting ==
    [][\A s \in Sessions :
          (Outstanding(s) /\ ev'.op \in UserEvents) =>
              /\ tb'[s].svgElement = tb[s].svgElement
              /\ tb'[s].history = tb[s].history
              /\ tb'[s].historyIndex = tb[s].historyIndex
              /\ ed'[s].hasUnsavedChanges = ed[s].hasUnsavedChanges
              /\ Open(s)' = Open(s)
              /\ Writes(tasks', s) = Writes(tasks, s)]_vars

SavePending(s) ==
    \E i \in 1..Len(tasks) :
        tasks[i].s = s /\ tasks[i].io = "write" /\ tasks[i].k = "handleSave"

\* C7: the save-callback is invoked only when the write handleSave awaited
\* has succeeded, and a session whose handleSave is under way leaves the
\* page only in the step that has invoked its callback.
C7_SaveNotifyClose ==
    [][/\ ev'.callbacks > 0 => ev'.op = "writeOk" /\ ev'.k = "handleSave"
       /\ \A s \in Sessions :
             (SavePending(s) /\ ed[s].inDocument /\ ~ed'[s].inDocument) =>
                 (ev'.callbacks > 0 /\ ev'.s = s)]_vars

Closed(s) == ~ed[s].inDocument /\ ~ed[s].keydownHandler /\ ~ed[s].containerEl

\* C8: on Escape or the Cancel button a dirty session asks for confirmation:
\* it closes when the user confirms and stays as it is when the user
\* refuses; a clean session closes without asking.  Nothing is written and
\* no write is started in any of the three cases.
C8_CancelAsksWhenDirty ==
    [][\A s \in Sessions :
          (\/ ev'.op = "cancel" /\ ev'.s = s
           \/ ev'.op = "Escape" /\ ed[s].keydownHandler) =>
              /\ file' = file
              /\ tasks' = tasks
              /\ IF ed[s].hasUnsavedChanges
                 THEN /\ s \in ev'.asked
                      /\ IF s \in ev'.confirmed
                         THEN Closed(s)'
                         ELSE ed'[s] = ed[s] /\ tb'[s] = tb[s]
                 ELSE s \notin ev'.asked /\ Closed(s)']_vars

\* A dirty session was asked to cancel, the user refused, and it is open.
C8_Witness ==
    /\ ev.op \in {"cancel", "Escape"}
    /\ \E s \in ev.asked \ ev.confirmed : Open(s) /\ ed[s].hasUnsavedChanges

\* C9: a rejected write is re-thrown by save(); the session, its toolbar,
\* the files, the host note and the registry stay as they were and no
\* save-callback runs; the dirty flag goes from set to clear only when a
\* write of that session has succeeded.
C9_FailedWriteKeepsSession ==
    [][/\ ev'.op = "writeFail" =>
             /\ ev'.err = "rethrown"
             /\ ev'.callbacks = 0
             /\ ed' = ed
             /\ tb' = tb
             /\ file' = file
             /\ host' = host
             /\ activeEditor' = activeEditor
       /\ \A s \in Sessions :
             (ed[s].hasUnsavedChanges /\ ~ed'[s].hasUnsavedChanges) =>
                 (ev'.op = "writeOk" /\ ev'.s = s)]_vars

\* The write that handleSave awaited was rejected: the session is open and
\* dirty.
C9_Witness ==
    /\ ev.op = "writeFail"
    /\ ev.k = "handleSave"
    /\ Open(ev.s)
    /\ ed[ev.s].hasUnsavedChanges

\* C10: a session created by createNewDrawing never has its embed inserted
\* twice, and has it inserted once when the write of its document has
\* succeeded and it has closed.
C10_EmbedInsertedOnce ==
    \A s \in Sessions :
        ed[s].kind = "new" =>
            /\ host[s] <= 1
            /\ (ev.op = "writeOk" /\ ev.s = s /\ Closed(s)) => host[s] = 1

HasOverlay(text) == \E k \in 1..Len(text.nodes) : text.nodes[k].box

\* C11: the selection overlay is never persisted: no history snapshot, no
\* content that save() hands to the vault and no file holds the selection
\* bounding-box rect.
C11_OverlayNeverPersisted ==
    /\ \A s \in Sessions :
          /\ ~HasOverlay(file[s])
          /\ \A k \in 1..Len(tb[s].history) : ~HasOverlay(tb[s].history[k])
    /\ \A i \in 1..Len(tasks) : tasks[i].io = "write" => ~HasOverlay(tasks[i].c)

\* C12: a selection exists only while the Select tool is active, and the
\* Delete key removes an element only while the Select tool is active.
C12_SelectionOnlyWithSelectTool ==
    \A s \in Sessions :
        /\ tb[s].selectedElement # Null => tb[s].activeTool = "select"
        /\ (ev.op = "Delete" /\ s \in ev.committed) => tb[s].activeTool = "select"

\* C13: once a session has closed, no pointer or key event changes the
\* session or its toolbar.
C13_ClosedSessionInert ==
    [][\A s \in Sessions :
          (tb[s].made /\ Closed(s) /\ ev'.op \in UserEvents) =>
              (tb'[s] = tb[s] /\ ed'[s] = ed[s])]_vars

\* C14: when the load of an opening session has failed, the failure has been
\* reported and nothing of the session is left: no editor container in the
\* page, no modal overlay, no key listener.
C14_FailedLoadAborts ==
    ev.op = "loadFail" =>
        /\ ev.notices >= 1
        /\ ~ed[ev.s].containerEl
        /\ ~ed[ev.s].inDocument
        /\ ~ed[ev.s].keydownHandler
        /\ ed[ev.s].overlay = 0

\* C15: when the loaded content has no svg root, the failure has been
\* reported and the session is not mounted and does not listen; and no
\* Save click or Ctrl+S invokes the save-callback in the handler itself,
\* where nothing has been written.
C15_InvalidContentAborts ==
    /\ (ev.op = "loadOk" /\ ~HasSvgRoot(file[ev.s])) =>
          /\ ev.notices >= 1
          /\ ~ed[ev.s].inDocument
          /\ ~ed[ev.s].keydownHandler
    /\ ev.op \in {"s", "save"} => ev.callbacks = 0

Pending(T, io, s) == Cardinality({i \in 1..Len(T) : T[i].io = io /\ T[i].s = s})

\* C16: a rejected load or write shows exactly one notification, and the
\* step that handles it does not start the operation again.
C16_FailureSurfacedOnce ==
    [][/\ ev'.op = "loadFail" =>
             /\ ev'.notices = 1
             /\ Pending(tasks', "load", ev'.s) < Pending(tasks, "load", ev'.s)
       /\ ev'.op = "writeFail" =>
             /\ ev'.notices = 1
             /\ Pending(tasks', "write", ev'.s) < Pending(tasks, "write", ev'.s)]_vars

\* C17: the step in which a session closes itself, by cancel or at the end
\* of handleSave, leaves the registry empty; and the registry never refers
\* to a session that was open and has closed.
C17_RegistryClearedOnSelfClose ==
    [][/\ \A s \in Sessions :
             (/\ Open(s)
              /\ Closed(s)'
              /\ \/ ev'.op \in {"cancel", "Escape"}
                 \/ ev'.op = "writeOk" /\ ev'.k = "handleSave") => activeEditor' = Null
       /\ (activeEditor' # Null /\ tb'[activeEditor'].made) =>
             ed'[activeEditor'].containerEl]_vars

ClosedEd(e) == ~e.inDocument /\ ~e.keydownHandler /\ ~e.containerEl

\* C18: when the write that onunload's closeActiveEditor awaited has
\* succeeded, the session is closed, the registry is empty and the file
\* holds the session's document; an unload with an empty registry changes
\* nothing but the plugin's being loaded.
C18_UnloadSavesAndCloses ==
    [][/\ (ev'.op = "writeOk" /\ ev'.k = "onunload") =>
             /\ ClosedEd(ed'[ev'.s])
             /\ activeEditor' = Null
             /\ file'[ev'.s] = [Serialize(tb[ev'.s].svgElement) EXCEPT !.decl = TRUE]
       /\ (ev'.op = "onunload" /\ activeEditor = Null) =>
             UNCHANGED <<tb, ed, file, tasks, activeEditor, host>>]_vars

\* C19: with the Eraser or the Select tool active, no press, move or release
\* on the canvas adds a primitive to the drawing or starts a drag: the
\* primitives afterwards are at most as many as before, and isDrawing is false.
PointerEvents == {"mousedown", "mousemove", "mouseup"}

C19_EraserAndSelectNeverDraw ==
    [][\A s \in Sessions :
          (/\ tb[s].made
           /\ tb[s].activeTool \in {"eraser", "select"}
           /\ ev'.op \in PointerEvents
           /\ ev'.s = s) =>
              /\ ~tb'[s].isDrawing
              /\ tb'[s].currentElement = Null
              /\ Len(CanvasPrimitives(tb'[s])) <= Len(CanvasPrimitives(tb[s]))]_vars

\* A move over the canvas while the Select tool shows a selection.
C19_Witness ==
    /\ ev.op = "mousemove"
    /\ tb[ev.s].activeTool = "select"
    /\ tb[ev.s].selectedElement # Null
    /\ ~tb[ev.s].isDrawing

\* The session's toolbar as the load left it: nothing drawn, erased, deleted
\* or selected since.
Untouched(t) ==
    /\ t.made
    /\ Len(t.history) = 1
    /\ ~t.isDrawing
    /\ t.selectedElement = Null

SameDocument(a, b) ==
    /\ Primitives(a.nodes) = Primitives(b.nodes)
    /\ a.attrs.width = b.attrs.width
    /\ a.attrs.height = b.attrs.height
    /\ a.attrs.viewBox = b.attrs.viewBox

C21_PenDragAddsOnePath ==
    [][\A s \in Sessions :
          LET t == tb[s]
              u == tb'[s]
              n == t.svgElement.nodes
              m == u.svgElement.nodes
              c == t.currentElement
          IN  (ev'.s = s /\ t.made /\ t.activeTool = "pen") =>
                /\ ev'.op = "mousedown" =>
                      /\ CanvasPrimitives(u) =
                            Append(CanvasPrimitives(t), Node("path", u.pathData, FALSE))
                      /\ Len(u.pathData) = 2
                      /\ u.currentElement = Len(m)
                      /\ u.history = t.history /\ u.historyIndex = t.historyIndex
                /\ (ev'.op = "mousemove" /\ t.isDrawing /\ c >= 1) =>
                      /\ Len(m) = Len(n)
                      /\ \A k \in 1..Len(n) : k # c => m[k] = n[k]
                      /\ m[c].tag = "path"
                      /\ Len(m[c].g) = Len(n[c].g) + 2
                      /\ SubSeq(m[c].g, 1, Len(n[c].g)) = n[c].g
                      /\ u.history = t.history /\ u.historyIndex = t.historyIndex
                /\ (ev'.op = "mouseup" /\ t.isDrawing) =>
                      /\ m = n
                      /\ ~u.isDrawing
                      /\ u.history = Append(SubSeq(t.history, 1, t.historyIndex + 1),
                                            Serialize(u.svgElement))
                      /\ u.historyIndex = t.historyIndex + 1
                      /\ Len(t.history) = 1 => (Len(u.history) = 2 /\ u.historyIndex = 1)]_vars

\* The drag of Scenario B, from a fresh session: pressed, moved through two
\* points, released.
C21_Witness ==
    /\ ev.op = "mouseup"
    /\ ev.s \in ev.committed
    /\ CanvasPrimitives(tb[ev.s]) = <<Node("path", <<1, 1, 2, 1, 2, 2>>, FALSE)>>
    /\ Len(tb[ev.s].history) = 2
    /\ tb[ev.s].historyIndex = 1
    /\ Primitives(tb[ev.s].history[2].nodes) = CanvasPrimitives(tb[ev.s])

\* C22: during a Rectangle drag pressed at s, a move to p leaves the rect
\* under construction with x and y the smaller of the two points' coordinates
\* and width and height the distance between them, never negative, whatever
\* the direction; the press itself leaves a rect at s of size 0, and the
\* release changes no geometry.
C22_RectangleNormalized ==
    [][\A s \in Sessions :
          LET t == tb[s]
              c == t.currentElement
              st == t.startPoint
          IN  (t.made /\ t.activeTool = "rectangle") =>
                /\ \A p \in RectPoints :
                      (MouseMove(s, p) /\ t.isDrawing /\ c >= 1) =>
                          LET n == tb'[s].svgElement.nodes[c]
                          IN  /\ n.tag = "rect"
                              /\ n.g[1] = (IF p[1] < st[1] THEN p[1] ELSE st[1])
                              /\ n.g[2] = (IF p[2] < st[2] THEN p[2] ELSE st[2])
                              /\ n.g[3] = (IF p[1] < st[1] THEN st[1] - p[1] ELSE p[1] - st[1])
                              /\ n.g[4] = (IF p[2] < st[2] THEN st[2] - p[2] ELSE p[2] - st[2])
                              /\ n.g[3] >= 0 /\ n.g[4] >= 0
                /\ MouseDown(s, RectStart, 0) =>
                      /\ tb'[s].currentElement = Len(tb'[s].svgElement.nodes)
                      /\ tb'[s].svgElement.nodes[tb'[s].currentElement] =
                            Node("rect", RectStart \o <<0, 0>>, FALSE)
                      /\ tb'[s].startPoint = RectStart
                /\ (ev'.op = "mouseup" /\ ev'.s = s) =>
                      tb'[s].svgElement.nodes = t.svgElement.nodes]_vars

\* Scenario C: a rect dragged up and to the left, released.
C22_Witness ==
    /\ ev.op = "mouseup"
    /\ ev.s \in ev.committed
    /\ tb[ev.s].activeTool = "rectangle"
    /\ CanvasPrimitives(tb[ev.s]) = <<Node("rect", <<1, 1, 1, 1>>, FALSE)>>

\* The child nodes n without those at the positions in K, in order.
Without(n, K) ==
    LET keep == {k \in 1..Len(n) : k \notin K}
        rank(k) == Cardinality({j \in keep : j <= k})
    IN  [i \in 1..Cardinality(keep) |-> n[CHOOSE k \in keep : rank(k) = i]]

\* C23: a Delete (or Backspace) key press while an element is selected
\* removes exactly that element from the canvas document, clears the
\* selection, appends exactly one history entry and signals a change; with
\* no selection it changes nothing.
C23_DeleteRemovesSelected ==
    [][\A s \in Sessions :
          LET t == tb[s]
              u == tb'[s]
          IN  (ev'.op = "Delete" /\ t.made) =>
                IF t.selectedElement # Null
                THEN /\ t.selectedElement >= 1
                     /\ CanvasPrimitives(u) =
                           Primitives(Without(t.svgElement.nodes,
                                              {t.selectedElement, t.selectionBox}))
                     /\ Len(CanvasPrimitives(u)) = Len(CanvasPrimitives(t)) - 1
                     /\ u.selectedElement = Null /\ u.selectionBox = Null
                     /\ u.history = Append(SubSeq(t.history, 1, t.historyIndex + 1),
                                           Serialize(u.svgElement))
                     /\ u.historyIndex = t.historyIndex + 1
                     /\ s \in ev'.committed
                     /\ ed'[s].hasUnsavedChanges
                ELSE u = t /\ ed'[s] = ed[s] /\ s \notin ev'.committed]_vars

\* C24: a drag with a drawing tool that is released right after the press,
\* with no move in between, leaves its zero-size primitive in the canvas
\* document, pushes one history entry that holds it, and sets the dirty flag.
C24_ClickLeavesZeroSizePrimitive ==
    [][\A s \in Sessions :
          LET t == tb[s]
              u == tb'[s]
              n == t.svgElement.nodes
          IN  (/\ ev.op = "mousedown" /\ ev.s = s /\ t.isDrawing
               /\ ev'.op = "mouseup" /\ ev'.s = s) =>
                 /\ t.currentElement = Len(n)
                 /\ Len(n) >= 1
                 /\ n[Len(n)].tag \in Drawable
                 /\ ZeroSize(n[Len(n)])
                 /\ u.svgElement.nodes = n
                 /\ CanvasPrimitives(u) # <<>>
                 /\ ~u.isDrawing
                 /\ u.history = Append(SubSeq(t.history, 1, t.historyIndex + 1),
                                       Serialize(u.svgElement))
                 /\ u.historyIndex = t.historyIndex + 1
                 /\ s \in ev'.committed
                 /\ ed'[s].hasUnsavedChanges]_vars

\* A click with the Rectangle tool on the empty canvas.
C24_Witness ==
    /\ ev.op = "mouseup"
    /\ ev.s \in ev.committed
    /\ tb[ev.s].activeTool = "rectangle"
    /\ CanvasPrimitives(tb[ev.s]) = <<Node("rect", <<2, 2, 0, 0>>, FALSE)>>
    /\ Len(tb[ev.s].history) = 2
    /\ ed[ev.s].hasUnsavedChanges

\* C25: saveToHistory cuts the entries after the cursor and appends the new
\* snapshot; if the history is then longer than maxHistorySize it drops the
\* oldest entry and leaves the cursor where it was, otherwise it advances the
\* cursor by one.  Either way the cursor ends on the last entry, and that
\* entry is the snapshot of the document as it is now.
C25_PushEvictsOldest ==
    [][\A s \in ev'.committed :
          LET t == tb[s]
              u == tb'[s]
              h == Append(SubSeq(t.history, 1, t.historyIndex + 1), Serialize(u.svgElement))
          IN  /\ IF Len(h) > maxHistorySize
                 THEN /\ u.history = SubSeq(h, 2, Len(h))
                      /\ u.historyIndex = t.historyIndex
                 ELSE /\ u.history = h
                      /\ u.historyIndex = t.historyIndex + 1
              /\ u.historyIndex = Len(u.history) - 1
              /\ u.history[Len(u.history)] = Serialize(u.svgElement)]_vars

\* A push has dropped the seed entry: the history is full, its oldest entry
\* is no longer the empty drawing that was loaded, the cursor is on the
\* snapshot just taken.
C25_Witness ==
    /\ ev.committed # {}
    /\ \A s \in ev.committed :
          /\ Len(tb[s].history) = maxHistorySize
          /\ tb[s].historyIndex = maxHistorySize - 1
          /\ Primitives(tb[s].history[1].nodes) # <<>>
          /\ tb[s].history[maxHistorySize] = Serialize(tb[s].svgElement)

UndoEvents == {"z", "undo"}

RedoEvents == {"y", "redo"}

\* C26: a toolbar starts with one history entry, the snapshot of the loaded
\* drawing, and cursor 0; the cursor is always on an entry; an undo at cursor
\* 0 and a redo at the last entry change nothing; an undo steps the cursor
\* back by one and a redo forward by one, and neither changes the entries.
C26_CursorWithinHistory ==
    /\ [](\A s \in Sessions :
             tb[s].made =>
                 /\ Len(tb[s].history) >= 1
                 /\ 0 <= tb[s].historyIndex
                 /\ tb[s].historyIndex <= Len(tb[s].history) - 1)
    /\ [][\A s \in Sessions :
             LET t == tb[s]
                 u == tb'[s]
             IN  /\ (~t.made /\ u.made) =>
                       /\ u.history = <<Serialize(u.svgElement)>>
                       /\ u.historyIndex = 0
                 /\ (t.made /\ ev'.op \in UndoEvents \cup RedoEvents) =>
                       u.history = t.history
                 /\ (t.made /\ ev'.op \in UndoEvents) =>
                       IF t.historyIndex = 0
                       THEN u = t /\ ed'[s] = ed[s]
                       ELSE u.historyIndex = t.historyIndex - 1
                 /\ (t.made /\ ev'.op \in RedoEvents) =>
                       IF t.historyIndex = Len(t.history) - 1
                       THEN u = t /\ ed'[s] = ed[s]
                       ELSE u.historyIndex = t.historyIndex + 1]_vars

\* Ctrl+Z has brought the cursor to the seed entry, or found it there, with
\* the two entries after it kept.
C26_Witness ==
    /\ ev.op = "z"
    /\ tb[1].historyIndex = 0
    /\ Len(tb[1].history) = MaxHist

\* C27: a pointer-down with the Eraser on a drawable primitive removes that
\* child of the svg element and no other, pushes one history entry and sets
\* the dirty flag; a pointer-down with the Eraser on the canvas background
\* changes neither the toolbar (document, history, cursor) nor the editor
\* (dirty flag).
C27_EraserRemovesOnlyItsTarget ==
    [][\A s \in Sessions :
          LET t == tb[s]
              u == tb'[s]
              n == t.svgElement.nodes
          IN  (t.made /\ t.activeTool = "eraser") =>
                \A k \in 0..Len(n), p \in DrawPoints :
                    MouseDown(s, p, k) =>
                        IF k >= 1
                        THEN /\ n[k].tag \in Drawable
                             /\ u.svgElement.nodes = RemoveAt(n, k)
                             /\ Len(CanvasPrimitives(u)) = Len(CanvasPrimitives(t)) - 1
                             /\ u.history = Append(SubSeq(t.history, 1, t.historyIndex + 1),
                                                   Serialize(u.svgElement))
                             /\ u.historyIndex = t.historyIndex + 1
                             /\ s \in ev'.committed
                             /\ ed'[s].hasUnsavedChanges
                             /\ u.activeTool = "eraser" /\ ~u.isDrawing
                        ELSE /\ u = t
                             /\ ed'[s] = ed[s]
                             /\ s \notin ev'.committed]_vars

\* The Eraser has just taken the only primitive off the canvas.
C27_Witness ==
    /\ ev.op = "mousedown"
    /\ tb[ev.s].activeTool = "eraser"
    /\ ev.s \in ev.committed
    /\ Len(before[ev.s]) = 1
    /\ CanvasPrimitives(tb[ev.s]) = <<>>
    /\ ed[ev.s].hasUnsavedChanges

\* C28: choosing a tool, and a pointer-down with the Select tool on a
\* primitive or on the empty canvas, change neither the primitives of the
\* canvas document, nor the history entries, nor the cursor, nor the dirty
\* flag; no drag starts, and the press leaves the active tool alone.
C28_ToolAndSelectionLeaveDocument ==
    [][\A s \in Sessions :
          LET t == tb[s]
              u == tb'[s]
              press == ev'.op = "mousedown" /\ t.activeTool = "select"
          IN  (t.made /\ ev'.s = s /\ (ev'.op = "tool" \/ press)) =>
                /\ CanvasPrimitives(u) = CanvasPrimitives(t)
                /\ Without(u.svgElement.nodes, {u.selectionBox}) =
                      Without(t.svgElement.nodes, {t.selectionBox})
                /\ u.svgElement.attrs = t.svgElement.attrs
                /\ u.history = t.history
                /\ u.historyIndex = t.historyIndex
                /\ ed'[s].hasUnsavedChanges = ed[s].hasUnsavedChanges
                /\ s \notin ev'.committed
                /\ u.isDrawing = t.isDrawing
                /\ press => u.activeTool = "select"]_vars

\* The Select tool has selected a primitive of a drawing that was edited
\* and undone before: the entries after the cursor are still there.
C28_Witness ==
    /\ ev.op = "mousedown"
    /\ tb[ev.s].activeTool = "select"
    /\ tb[ev.s].selectedElement >= 1
    /\ tb[ev.s].selectionBox >= 1
    /\ tb[ev.s].historyIndex < Len(tb[ev.s].history) - 1

\* C29: every committed mutation and every undo or redo that moves the
\* cursor leaves the session dirty; a dirty session that cancels is asked for
\* confirmation; and the dirty flag goes from set to clear only when a write
\* of that session's drawing has succeeded.
C29_DirtyUntilSaved ==
    [][\A s \in Sessions :
          /\ s \in ev'.committed => ed'[s].hasUnsavedChanges
          /\ (/\ tb[s].made
              /\ ev'.op \in UndoEvents \cup RedoEvents
              /\ tb'[s].historyIndex # tb[s].historyIndex) => ed'[s].hasUnsavedChanges
          /\ (ed[s].hasUnsavedChanges /\ Open(s) /\ ev'.op \in {"cancel", "Escape"}
              /\ (ev'.op = "cancel" => ev'.s = s)) => s \in ev'.asked
          /\ (ed[s].hasUnsavedChanges /\ ~ed'[s].hasUnsavedChanges) =>
                (ev'.op = "writeOk" /\ ev'.s = s)]_vars

\* A shape was drawn and undone, and the cancel that followed asked for
\* confirmation.
C29_Witness ==
    /\ ev.op = "cancel"
    /\ ev.s \in ev.asked
    /\ tb[ev.s].historyIndex = 0
    /\ Len(tb[ev.s].history) = 2
    /\ CanvasPrimitives(tb[ev.s]) = Primitives(tb[ev.s].history[1].nodes)

\* C30: the selected element, if there is one, is a drawable child of the svg
\* element, and a Delete key press that pushed a history entry has removed a
\* primitive.
C30_SelectedIsInDocument ==
    \A s \in Sessions :
        tb[s].made =>
            /\ tb[s].selectedElement # Null =>
                  /\ tb[s].selectedElement \in 1..Len(tb[s].svgElement.nodes)
                  /\ tb[s].svgElement.nodes[tb[s].selectedElement].tag \in Drawable
            /\ (ev.op = "Delete" /\ s \in ev.committed) =>
                  Len(CanvasPrimitives(tb[s])) = Len(before[s]) - 1

\* C31: whenever no drag is in progress, the primitives of the canvas
\* document are the primitives of the history entry at the cursor.
C31_DocumentIsCurrentEntry ==
    \A s \in Sessions :
        (tb[s].made /\ ~tb[s].isDrawing) =>
            CanvasPrimitives(tb[s]) = Primitives(Current(tb[s]).nodes)

\* C32: while a drag is in progress the element under construction is a child
\* of the svg element, and the release that ends a drag leaves exactly one
\* primitive more than there were when the drag began.
C32_DragAddsOnePrimitive ==
    \A s \in Sessions :
        tb[s].made =>
            /\ tb[s].isDrawing =>
                  tb[s].currentElement \in 1..Len(tb[s].svgElement.nodes)
            /\ (ev.op = "mouseup" /\ ev.s = s /\ s \in ev.committed) =>
                  Len(CanvasPrimitives(tb[s])) = Len(before[s]) + 1

\* C33: in every state of an open session, a drag under way included, in
\* which the primitives of the canvas document are not those of the content
\* that was loaded, the session is dirty.
C33_DirtyWheneverChanged ==
    \A s \in Sessions :
        (/\ Open(s)
         /\ tb[s].made
         /\ CanvasPrimitives(tb[s]) # Primitives(ParseSvg(file[s]).nodes)) =>
            ed[s].hasUnsavedChanges

\* C34: the registry's active reference is cleared only for a session that
\* is closing: no step takes activeEditor from a session to null while that
\* session stays open.
C34_RegistryClearedOnlyByActive ==
    [][(activeEditor # Null /\ activeEditor' = Null) =>
          ~(ed'[activeEditor].inDocument /\ ed'[activeEditor].keydownHandler)]_vars

\* C35: close() called on a session that was mounted and is already closed
\* changes nothing:
\* no field of any session or toolbar, no file and no host document changes,
\* no node is removed or replaced again, and nothing is thrown.
C35_SecondCloseChangesNothing ==
    \A s \in Sessions :
        (tb[s].made /\ ~ed[s].inDocument /\ ~ed[s].keydownHandler) =>
            LET w == Close(World, s)
            IN  /\ w.ed = ed /\ w.tb = tb
                /\ w.host = host /\ w.file = file
                /\ w.out = NoOut

\* the second handleSave of a new drawing resolved after the first had closed it
C35_Witness ==
    /\ ev.op = "writeOk" /\ ev.k = "handleSave"
    /\ host[ev.s] = 2
    /\ tb[ev.s].made /\ ~ed[ev.s].inDocument /\ ~ed[ev.s].keydownHandler

\* C36: while a session's toolbar exists exactly one toolbar element is
\* attached to the editor container, however many tool selections, undos and
\* redos have rendered it; once destroy() has run none is attached.
C36_OneToolbarElement ==
    \A s \in Sessions :
        tb[s].made =>
            /\ tb[s].toolbarEl => tb[s].toolbarEls = 1
            /\ ~tb[s].toolbarEl => tb[s].toolbarEls = 0

=============================================================================
